---------------------------- MODULE Spec2Model ----------------------------
(***************************************************************************)
(* A model of brainfuck.py: the storage band (class Band), program         *)
(* construction (BrainFuck.sanitize, BrainFuck.check_valid, __init__),     *)
(* the engine step (BrainFuck._do_step and the instruction handlers), the  *)
(* print and read modes (PrintMode, CharPrintMode, IntBasePrintMode,       *)
(* ReadMode, CharReadMode, IntBaseReadMode), the setters of the three      *)
(* strategies, the drivers (DebugMode.debug, DefaultDebugMode.debug, a     *)
(* driver of the caller's) and the run loop (BrainFuck.run).               *)
(* KeyboardInterrupt, the prompts on stderr and what the debugger writes   *)
(* to its output file are not modelled.                                    *)
(*                                                                         *)
(* Text is a sequence of one-character strings.  A file read line by line  *)
(* is a sequence of lines (each without its line end) and a read offset.   *)
(***************************************************************************)
EXTENDS Integers, Sequences, FiniteSets, TLC

VARIABLES
    phase,        \* where the process is: "new" | "poll" | "s" | "p" | "exit" |
                  \* "crash" (an exception ended it) | "hang" (in a call that never returns)
    raw,          \* the program text handed to BrainFuck(...)
    built,        \* TRUE once __init__ has created the engine's fields
    program,      \* self._program
    pointer,      \* self._pointer
    counter,      \* self._counter
    loop_stack,   \* self._loop_stack, most recent first
    rband,        \* self._band.rband, rband[1] is the current cell
    lband,        \* self._band.lband, nearest first
    debug_mode,   \* the debug_mode argument ("None" or "External", a driver of the caller's),
                  \* then self._debug_mode ("DebugMode" or "External")
    print_mode,   \* self._print_mode: [class, base] (base 0 where the class has none)
    read_mode,    \* self._read_mode: [class, base] (base 0 where the class has none)
    show_state,   \* DefaultDebugMode.show_state
    ret,          \* the last call of a set_*_mode method by the caller's driver:
                  \* <<method, argument, value returned>>, <<>> before any
    infile,       \* the lines of self._read_mode.file
    inpos,        \* how many of them have been read
    incol,        \* how many characters of the next line have been read
    outf,         \* what has been written to self._print_mode.file
    stderr,       \* the last error message written to sys.stderr
    exit_code,    \* the argument of exit(), meaningful when phase = "exit"
    action,       \* run(): the tuple the driver returned last
    left,         \* run(): iterations left in `for _ in range(action[1])`
    position,     \* run(): min(action[1], len(self._program))
    sent,         \* history: the values passed to self._print_mode.dot
    hist,         \* history: what a batch started from (see NoHist)
    ref,          \* Band reference model: offset -> value
    cur,          \* Band reference model: the cursor's offset
    nops,         \* Band reference model: operations applied so far
    written,      \* Band reference model: the offsets written so far
    back          \* Band reference model: the last operation was a move onto a written offset

vars == <<phase, raw, built, program, pointer, counter, loop_stack, rband, lband,
          debug_mode, infile, inpos, outf, stderr, exit_code, action, left,
          position, sent, hist, ref, cur, nops, written, back,
          print_mode, read_mode, show_state, ret, incol>>

engine == <<program, pointer, counter, loop_stack, rband, lband>>
ports  == <<infile, inpos, incol, outf, sent>>
modes  == <<print_mode, read_mode, show_state, ret>>
refmodel == <<ref, cur, nops, written, back>>

(***************************************************************************)
(* Bounds of the model.                                                    *)
(***************************************************************************)
MaxCounter  == 21     \* no step is taken once the step counter is this large
MaxStack    == 3      \* no '[' is executed once the loop stack is this long
MaxSent     == 2      \* no '.' is executed once this many values were sent
MaxStepArg  == 3      \* the largest n of a Step(n) decision
MaxRawLen   == 4      \* the longest raw text of SpecConstruct
MaxBandOps  == 7      \* the longest sequence of Band operations of SpecBand
MaxCell     == 3      \* the largest initial cell value of SpecLoop

\* min() taken for its first argument
Min_first(a, b) == a

Min(a, b) == IF a < b THEN a ELSE b
Max(a, b) == IF a > b THEN a ELSE b

(***************************************************************************)
(* Python list slices l[0:1] and l[1:].                                    *)
(***************************************************************************)
First1(l) == IF l = <<>> THEN <<>> ELSE <<Head(l)>>
Rest1(l)  == IF l = <<>> THEN <<>> ELSE Tail(l)

(***************************************************************************)
(* class Band, on a record [rband, lband].                                 *)
(***************************************************************************)
Band_reset == [rband |-> <<0>>, lband |-> <<>>]

\* Band.left without its `if not self.lband` block
Band_left_no_cell(b) ==
    [rband |-> First1(b.lband) \o b.rband, lband |-> Rest1(b.lband)]

Band_left(b) ==
    LET l == IF b.lband = <<>> THEN <<0>> ELSE b.lband
    IN  [rband |-> First1(l) \o b.rband, lband |-> Rest1(l)]

\* Band.right without `self.lband[0:0] = self.rband[0:1]`
Band_right_forgetful(b) ==
    LET r == Rest1(b.rband)
    IN  [rband |-> IF r = <<>> THEN <<0>> ELSE r, lband |-> b.lband]

\* Band.right without its `if self.rband == []` block
Band_right_no_cell(b) ==
    [rband |-> Rest1(b.rband), lband |-> First1(b.rband) \o b.lband]

Band_right(b) ==
    LET l == First1(b.rband) \o b.lband
        r == Rest1(b.rband)
    IN  [rband |-> IF r = <<>> THEN <<0>> ELSE r, lband |-> l]

Band_minus(b) == [b EXCEPT !.rband[1] = @ - 1]

\* Band.plus on a cell of one byte
Band_plus_byte(b) == [b EXCEPT !.rband[1] = (@ + 1) % 256]

Band_plus(b) == [b EXCEPT !.rband[1] = @ + 1]

Band_get(b) == b.rband[1]

Band_set(b, value) == [b EXCEPT !.rband[1] = value]

(***************************************************************************)
(* Program construction.                                                   *)
(***************************************************************************)
valid_chars == {"+", "-", ".", ",", "<", ">", "[", "]"}

sanitize(text) == SelectSeq(text, LAMBDA x : x \in valid_chars)

\* check_valid without its `if balance > 0` after the loop
RECURSIVE check_valid_no_final_check(_, _, _)
check_valid_no_final_check(prog, i, balance) ==
    IF i = Len(prog) THEN [code |-> 0, at |-> i, msg |-> ""]
    ELSE LET c == prog[i + 1]
             b == IF c = "[" THEN balance + 1
                  ELSE IF c = "]" THEN balance - 1 ELSE balance
         IN  IF b < 0
             THEN [code |-> -1, at |-> i + 1, msg |-> "not balanced"]
             ELSE check_valid_no_final_check(prog, i + 1, b)

\* check_valid with `if balance < 0` tested after the loop instead of in it
RECURSIVE check_valid_late(_, _, _)
check_valid_late(prog, i, balance) ==
    IF i = Len(prog)
    THEN IF balance > 0
         THEN [code |-> -1, at |-> i, msg |-> "not enough closing"]
         ELSE IF balance < 0
              THEN [code |-> -1, at |-> i, msg |-> "not balanced"]
              ELSE [code |-> 0, at |-> i, msg |-> ""]
    ELSE LET c == prog[i + 1]
             b == IF c = "[" THEN balance + 1
                  ELSE IF c = "]" THEN balance - 1 ELSE balance
         IN  check_valid_late(prog, i + 1, b)

\* check_valid's loop, having consumed i characters with the given balance.
\* code 0: returned normally; code -1: exit(-1) after consuming `at` characters.
RECURSIVE check_valid_from(_, _, _)
check_valid_from(prog, i, balance) ==
    IF i = Len(prog)
    THEN IF balance > 0
         THEN [code |-> -1, at |-> i, msg |-> "not enough closing"]
         ELSE [code |-> 0, at |-> i, msg |-> ""]
    ELSE LET c == prog[i + 1]
             b == IF c = "[" THEN balance + 1
                  ELSE IF c = "]" THEN balance - 1 ELSE balance
         IN  IF b < 0
             THEN [code |-> -1, at |-> i + 1, msg |-> "not balanced"]
             ELSE check_valid_from(prog, i + 1, b)

check_valid(prog) == check_valid_from(prog, 0, 0)

(***************************************************************************)
(* Number formatting and parsing of the numeric ports.                     *)
(***************************************************************************)
Digits == <<"0", "1", "2", "3", "4", "5", "6", "7", "8", "9">>

DigitValue(c) == CHOOSE d \in 0..9 : Digits[d + 1] = c

IsDigit(c) == \E d \in 1..10 : Digits[d] = c

\* str(n) of a Python int
RECURSIVE str_nat(_)
str_nat(n) == IF n < 10 THEN <<Digits[n + 1]>>
              ELSE str_nat(n \div 10) \o <<Digits[(n % 10) + 1]>>

str(n) == IF n < 0 THEN <<"-">> \o str_nat(-n) ELSE str_nat(n)

\* s.strip(), for the blank " "
RECURSIVE lstrip(_)
lstrip(s) == IF s # <<>> /\ Head(s) = " " THEN lstrip(Tail(s)) ELSE s

RECURSIVE rstrip(_)
rstrip(s) == IF s # <<>> /\ s[Len(s)] = " "
             THEN rstrip(SubSeq(s, 1, Len(s) - 1)) ELSE s

strip(s) == rstrip(lstrip(s))

RECURSIVE nat_of(_)
nat_of(ds) == IF ds = <<>> THEN 0
              ELSE 10 * nat_of(SubSeq(ds, 1, Len(ds) - 1)) + DigitValue(ds[Len(ds)])

\* int(s): [ok |-> FALSE] stands for ValueError
int(s) ==
    LET signed == s # <<>> /\ Head(s) \in {"-", "+"}
        ds     == IF signed THEN Tail(s) ELSE s
    IN  IF ds # <<>> /\ \A i \in 1..Len(ds) : IsDigit(ds[i])
        THEN [ok |-> TRUE,
              value |-> IF signed /\ Head(s) = "-" THEN -nat_of(ds) ELSE nat_of(ds)]
        ELSE [ok |-> FALSE, value |-> 0]

\* PrintMode.dot: what the file holds after the call
PrintMode_dot(file, value) == file \o str(value) \o <<";">>

\* ReadMode.comma reading from offset pos: the value returned and the new
\* offset, or eof (the call ends in exit(-2))
RECURSIVE ReadMode_comma(_, _)
ReadMode_comma(file, pos) ==
    IF pos >= Len(file)
    THEN [eof |-> TRUE, value |-> 0, pos |-> pos]
    ELSE LET p == int(strip(file[pos + 1]))
         IN  IF p.ok THEN [eof |-> FALSE, value |-> p.value, pos |-> pos + 1]
             ELSE ReadMode_comma(file, pos + 1)

(***************************************************************************)
(* Characters.  The printable ASCII characters stand for themselves but    *)
(* for the double quote, the backslash and the backquote; these, the line   *)
(* end and any other code point v are written "chr(v)".                    *)
(***************************************************************************)
Upper == <<"A", "B", "C", "D", "E", "F", "G", "H", "I", "J", "K", "L", "M",
           "N", "O", "P", "Q", "R", "S", "T", "U", "V", "W", "X", "Y", "Z">>

Lower == <<"a", "b", "c", "d", "e", "f", "g", "h", "i", "j", "k", "l", "m",
           "n", "o", "p", "q", "r", "s", "t", "u", "v", "w", "x", "y", "z">>

Ascii == <<" ", "!", "chr(34)", "#", "$", "%", "&", "'", "(", ")", "*", "+", ",",
           "-", ".", "/">> \o Digits \o <<":", ";", "<", "=", ">", "?", "@">>
         \o Upper \o <<"[", "chr(92)", "]", "^", "_", "chr(96)">> \o Lower
         \o <<"{", "|", "}", "~">>

\* chr(value): [ok |-> FALSE] stands for ValueError or OverflowError
chr(value) ==
    IF value < 0 \/ value > 1114111 THEN [ok |-> FALSE, char |-> ""]
    ELSE [ok |-> TRUE,
          char |-> IF value >= 32 /\ value <= 126 THEN Ascii[value - 31]
                   ELSE "chr(" \o ToString(value) \o ")"]

\* ord(char), for the characters an input file of the model holds
ord(char) ==
    IF char = "chr(10)" THEN 10
    ELSE 31 + (CHOOSE i \in 1..Len(Ascii) : Ascii[i] = char)

(***************************************************************************)
(* CharPrintMode and IntBasePrintMode.                                     *)
(***************************************************************************)
\* CharPrintMode.dot: what the file holds after the call
CharPrintMode_dot(file, value) ==
    file \o <<IF chr(value).ok THEN chr(value).char ELSE chr(9608).char>>

\* IntBasePrintMode.digits: [ok |-> FALSE] stands for ValueError
digits(base) ==
    IF 2 <= base /\ base <= 36
    THEN [ok |-> TRUE, prefix |-> <<>>, digits |-> Digits \o Upper, suffix |-> <<>>]
    ELSE IF base = 64
    THEN [ok |-> TRUE, prefix |-> <<>>, digits |-> Upper \o Lower \o <<"+", "/">>,
          suffix |-> <<"=">>]
    ELSE [ok |-> FALSE, prefix |-> <<>>, digits |-> <<>>, suffix |-> <<>>]

\* baseN's loop `while number:`.  fault "IndexError": digits[1][number % base]
\* raised it; fault "loops": number //= base has left number as it was, so
\* the loop never ends.
RECURSIVE baseN_while(_, _, _, _)
baseN_while(ds, number, base, string) ==
    IF number = 0 THEN [fault |-> "", string |-> string]
    ELSE IF (number % base) + 1 > Len(ds) THEN [fault |-> "IndexError", string |-> string]
    ELSE IF number \div base = number THEN [fault |-> "loops", string |-> string]
    ELSE baseN_while(ds, number \div base, base, <<ds[(number % base) + 1]>> \o string)

\* IntBasePrintMode.baseN
baseN(number, base) ==
    LET d == digits(base)
    IN  IF ~d.ok THEN [fault |-> "ValueError", string |-> <<>>]
        ELSE IF number = 0 THEN [fault |-> "", string |-> <<d.digits[1]>>]
        ELSE LET w == baseN_while(d.digits, number, base, d.prefix)
             IN  [w EXCEPT !.string = @ \o d.suffix]

\* The dot method of a print mode: what the file holds after the call, or
\* the fault that kept the call from returning
print_dot(mode, file, value) ==
    CASE mode.class = "PrintMode" -> [fault |-> "", file |-> PrintMode_dot(file, value)]
      [] mode.class = "CharPrintMode" ->
             [fault |-> "", file |-> CharPrintMode_dot(file, value)]
      [] mode.class = "IntBasePrintMode" ->
             LET r == baseN(value, mode.base)
             IN  [fault |-> r.fault,
                  file |-> IF r.fault = "" THEN file \o r.string \o <<";">> ELSE file]

(***************************************************************************)
(* CharReadMode and IntBaseReadMode.                                       *)
(***************************************************************************)
\* The lines of the file as readline() sees them when col characters of
\* line pos + 1 have been read
LinesAt(file, pos, col) ==
    IF pos < Len(file) THEN [file EXCEPT ![pos + 1] = SubSeq(@, col + 1, Len(@))]
    ELSE file

\* CharReadMode.comma: file.read(1)
CharReadMode_comma(file, pos, col) ==
    IF pos >= Len(file) THEN [eof |-> TRUE, value |-> 0, pos |-> pos, col |-> col]
    ELSE IF col < Len(file[pos + 1])
    THEN [eof |-> FALSE, value |-> ord(file[pos + 1][col + 1]), pos |-> pos, col |-> col + 1]
    ELSE [eof |-> FALSE, value |-> ord("chr(10)"), pos |-> pos + 1, col |-> 0]

\* The value of a digit or letter in int(s, base), 36 for any other character
DigitValueN(c) ==
    IF \E i \in 1..10 : Digits[i] = c THEN (CHOOSE i \in 1..10 : Digits[i] = c) - 1
    ELSE IF \E i \in 1..26 : Upper[i] = c THEN 9 + (CHOOSE i \in 1..26 : Upper[i] = c)
    ELSE IF \E i \in 1..26 : Lower[i] = c THEN 9 + (CHOOSE i \in 1..26 : Lower[i] = c)
    ELSE 36

RECURSIVE nat_of_base(_, _)
nat_of_base(ds, base) ==
    IF ds = <<>> THEN 0
    ELSE base * nat_of_base(SubSeq(ds, 1, Len(ds) - 1), base) + DigitValueN(ds[Len(ds)])

\* int(s, base) for a stripped text without "_": [ok |-> FALSE] stands for
\* ValueError, which a base outside 2..36 (other than 0) raises too
int_base(s, base) ==
    LET signed == s # <<>> /\ Head(s) \in {"-", "+"}
        us     == IF signed THEN Tail(s) ELSE s
        letter == CASE base = 16 -> {"x", "X"} [] base = 8 -> {"o", "O"}
                    [] base = 2 -> {"b", "B"} [] OTHER -> {}
        ds     == IF Len(us) >= 2 /\ us[1] = "0" /\ us[2] \in letter
                  THEN SubSeq(us, 3, Len(us)) ELSE us
    IN  IF /\ 2 <= base /\ base <= 36
           /\ ds # <<>>
           /\ \A i \in 1..Len(ds) : DigitValueN(ds[i]) < base
        THEN [ok |-> TRUE,
              value |-> IF signed /\ Head(s) = "-" THEN -nat_of_base(ds, base)
                        ELSE nat_of_base(ds, base)]
        ELSE [ok |-> FALSE, value |-> 0]

\* IntBaseReadMode.comma giving up at the first line that does not parse
IntBaseReadMode_comma_no_retry(file, pos, base) ==
    IF pos >= Len(file)
    THEN [eof |-> TRUE, value |-> 0, pos |-> pos]
    ELSE LET p == int_base(strip(file[pos + 1]), base)
         IN  [eof |-> ~p.ok, value |-> p.value, pos |-> pos + 1]

\* IntBaseReadMode.comma
RECURSIVE IntBaseReadMode_comma(_, _, _)
IntBaseReadMode_comma(file, pos, base) ==
    IF pos >= Len(file)
    THEN [eof |-> TRUE, value |-> 0, pos |-> pos]
    ELSE LET p == int_base(strip(file[pos + 1]), base)
         IN  IF p.ok THEN [eof |-> FALSE, value |-> p.value, pos |-> pos + 1]
             ELSE IntBaseReadMode_comma(file, pos + 1, base)

\* The comma method of a read mode: the value returned and the new offsets,
\* or eof (the call ends in exit(-2))
read_comma(mode, file, pos, col) ==
    CASE mode.class = "ReadMode" ->
             LET r == ReadMode_comma(LinesAt(file, pos, col), pos)
             IN  [eof |-> r.eof, value |-> r.value, pos |-> r.pos, col |-> 0]
      [] mode.class = "CharReadMode" -> CharReadMode_comma(file, pos, col)
      [] mode.class = "IntBaseReadMode" ->
             LET r == IntBaseReadMode_comma(LinesAt(file, pos, col), pos, mode.base)
             IN  [eof |-> r.eof, value |-> r.value, pos |-> r.pos, col |-> 0]

(***************************************************************************)
(* The engine, on a record of its fields and of the ports' files.          *)
(* fault: "" (the call returned), "eof" (exit(-2) inside the read port),   *)
(* "IndexError" (raised by self._loop_stack[0] on an empty stack or inside *)
(* the print port), "ValueError" (raised inside the print port) or "loops" *)
(* (the print port never returns).                                         *)
(***************************************************************************)
Engine == [pointer |-> pointer, counter |-> counter, loop_stack |-> loop_stack,
           rband |-> rband, lband |-> lband, inpos |-> inpos, incol |-> incol,
           outf |-> outf,
           sent |-> sent, fault |-> ""]

BandOf(e) == [rband |-> e.rband, lband |-> e.lband]

WithBand(e, b) == [e EXCEPT !.rband = b.rband, !.lband = b.lband]

dot(e) ==
    LET r == print_dot(print_mode, e.outf, Band_get(BandOf(e)))
    IN  [e EXCEPT !.outf = r.file,
                  !.sent = Append(e.sent, Band_get(BandOf(e))),
                  !.fault = r.fault]

\* _comma reading a value without storing it
comma_not_stored(e) ==
    LET r == read_comma(read_mode, infile, e.inpos, e.incol)
    IN  IF r.eof THEN [e EXCEPT !.inpos = r.pos, !.incol = r.col, !.fault = "eof"]
        ELSE [e EXCEPT !.inpos = r.pos, !.incol = r.col]

comma(e) ==
    LET r == read_comma(read_mode, infile, e.inpos, e.incol)
    IN  IF r.eof THEN [e EXCEPT !.inpos = r.pos, !.incol = r.col, !.fault = "eof"]
        ELSE [WithBand(e, Band_set(BandOf(e), r.value))
                 EXCEPT !.inpos = r.pos, !.incol = r.col]

\* _loop noting nothing when the current cell is 0
loop_zero_not_noted(e) ==
    IF Band_get(BandOf(e)) = 0 THEN e
    ELSE [e EXCEPT !.loop_stack = <<e.pointer>> \o e.loop_stack]

\* _loop noting the loop start at the far end of the stack
loop_noted_last(e) == [e EXCEPT !.loop_stack = e.loop_stack \o <<e.pointer>>]

\* _loop jumping to the next ']' when the current cell is 0
loop_skips_on_zero(e) ==
    IF Band_get(BandOf(e)) = 0
    THEN [e EXCEPT !.pointer =
             CHOOSE j \in e.pointer..(Len(program) - 1) :
                 /\ program[j + 1] = "]"
                 /\ \A k \in e.pointer..(j - 1) : program[k + 1] # "]"]
    ELSE [e EXCEPT !.loop_stack = <<e.pointer>> \o e.loop_stack]

loop(e) == [e EXCEPT !.loop_stack = <<e.pointer>> \o e.loop_stack]

\* _endloop with its test inverted: `if self._band.get():`
endloop_inverted(e) ==
    IF Band_get(BandOf(e)) # 0
    THEN [e EXCEPT !.loop_stack = Rest1(e.loop_stack)]
    ELSE IF e.loop_stack = <<>> THEN [e EXCEPT !.fault = "IndexError"]
         ELSE [e EXCEPT !.pointer = e.loop_stack[1]]

\* _endloop jumping onto the '[' itself, which the next step executes again
endloop_onto_bracket(e) ==
    IF Band_get(BandOf(e)) = 0
    THEN [e EXCEPT !.loop_stack = Rest1(e.loop_stack)]
    ELSE IF e.loop_stack = <<>> THEN [e EXCEPT !.fault = "IndexError"]
         ELSE [e EXCEPT !.pointer = e.loop_stack[1] - 1]

\* _endloop popping and reading the far end of the stack
endloop_from_oldest(e) ==
    IF Band_get(BandOf(e)) = 0
    THEN [e EXCEPT !.loop_stack = IF @ = <<>> THEN <<>> ELSE SubSeq(@, 1, Len(@) - 1)]
    ELSE IF e.loop_stack = <<>> THEN [e EXCEPT !.fault = "IndexError"]
         ELSE [e EXCEPT !.pointer = e.loop_stack[Len(e.loop_stack)]]

endloop(e) ==
    IF Band_get(BandOf(e)) = 0
    THEN [e EXCEPT !.loop_stack = Rest1(e.loop_stack)]
    ELSE IF e.loop_stack = <<>> THEN [e EXCEPT !.fault = "IndexError"]
         ELSE [e EXCEPT !.pointer = e.loop_stack[1]]

dispatch(e, char) ==
    CASE char = "+" -> WithBand(e, Band_plus(BandOf(e)))
      [] char = "-" -> WithBand(e, Band_minus(BandOf(e)))
      [] char = "." -> dot(e)
      [] char = "," -> comma(e)
      [] char = "<" -> WithBand(e, Band_left(BandOf(e)))
      [] char = ">" -> WithBand(e, Band_right(BandOf(e)))
      [] char = "[" -> loop(e)
      [] char = "]" -> endloop(e)

\* _do_step counting every instruction but '['
do_step_loop_not_counted(e) ==
    IF e.pointer >= Len(program) THEN e
    ELSE LET d == dispatch(e, program[e.pointer + 1])
         IN  IF d.fault # "" THEN d
             ELSE [d EXCEPT !.pointer = @ + 1,
                            !.counter = IF program[e.pointer + 1] = "[" THEN @ ELSE @ + 1]

\* _do_step testing the end of the program after its two increments
do_step_counts_at_end(e) ==
    IF e.pointer >= Len(program) THEN [e EXCEPT !.counter = @ + 1]
    ELSE LET d == dispatch(e, program[e.pointer + 1])
         IN  IF d.fault # "" THEN d
             ELSE [d EXCEPT !.pointer = @ + 1, !.counter = @ + 1]

\* _do_step starting over at the end of the program
do_step_starts_over(e) ==
    IF e.pointer >= Len(program) THEN [e EXCEPT !.pointer = 0]
    ELSE LET d == dispatch(e, program[e.pointer + 1])
         IN  IF d.fault # "" THEN d
             ELSE [d EXCEPT !.pointer = @ + 1, !.counter = @ + 1]

do_step(e) ==
    IF e.pointer >= Len(program) THEN e
    ELSE LET d == dispatch(e, program[e.pointer + 1])
         IN  IF d.fault # "" THEN d
             ELSE [d EXCEPT !.pointer = @ + 1, !.counter = @ + 1]

\* The model takes a step only within its bounds.
InBounds(e) ==
    e.pointer < Len(program) =>
        /\ e.counter < MaxCounter
        /\ program[e.pointer + 1] = "[" => Len(e.loop_stack) < MaxStack
        /\ program[e.pointer + 1] = "." => Len(e.sent) < MaxSent

\* The number of _do_step calls from e until the pointer is at the end of the
\* program, or fuel + 1 when that takes more than fuel calls (or never happens).
RECURSIVE StepsUntilTerminal(_, _)
StepsUntilTerminal(e, fuel) ==
    IF e.fault = "" /\ e.pointer >= Len(program) THEN 0
    ELSE IF fuel = 0 \/ e.fault # "" THEN fuel + 1
    ELSE CHOOSE k \in {1 + StepsUntilTerminal(after, fuel - 1) : after \in {do_step(e)}} : TRUE


(***************************************************************************)
(* BrainFuck.run, the reset branch: the engine after                       *)
(* self._pointer = 0; self._counter = 0; self._band.reset().               *)
(***************************************************************************)
\* the reset branch without self._band.reset()
run_reset_keeps_band(e) == [e EXCEPT !.pointer = 0, !.counter = 0]

run_reset(e) == [WithBand(e, Band_reset) EXCEPT !.pointer = 0, !.counter = 0]

\* DebugMode.debug answering ('s', 2)
DebugMode_debug_two(e) ==
    IF e.pointer >= Len(program) THEN <<"exit", 0>> ELSE <<"s", 2>>

\* DebugMode.debug: the tuple returned, or <<"exit", code>> for exit(code)
DebugMode_debug(e) ==
    IF e.pointer >= Len(program) THEN <<"exit", 0>> ELSE <<"s", 1>>

(***************************************************************************)
(* History kept for the properties: the counter and pointer a batch        *)
(* started from, the steps that were left until the end of the program,    *)
(* the number of polls of the default driver, the characters check_valid   *)
(* had consumed when it ended, the cells a harness wrote before run(), and *)
(* the read offsets and the lengths of the output at the last reset.       *)
(***************************************************************************)
NoHist == [c0 |-> 0, p0 |-> 0, k0 |-> 0, polls |-> 0, scanned |-> 0, cells |-> <<>>,
           r0 |-> [inpos |-> 0, incol |-> 0, sent |-> 0, outf |-> 0]]

Install(e) ==
    /\ pointer' = e.pointer
    /\ counter' = e.counter
    /\ loop_stack' = e.loop_stack
    /\ rband' = e.rband
    /\ lband' = e.lband
    /\ inpos' = e.inpos
    /\ incol' = e.incol
    /\ outf' = e.outf
    /\ sent' = e.sent

(***************************************************************************)
(* BrainFuck.__init__                                                      *)
(***************************************************************************)
Construct ==
    /\ phase = "new"
    /\ LET prog == sanitize(raw)
           v    == check_valid(prog)
       IN  /\ hist' = [hist EXCEPT !.scanned = v.at]
           /\ IF v.code # 0
              THEN /\ phase' = "exit"
                   /\ exit_code' = v.code
                   /\ stderr' = v.msg
                   /\ UNCHANGED <<built, engine, debug_mode>>
              ELSE /\ phase' = "poll"
                   /\ built' = TRUE
                   /\ program' = prog
                   /\ pointer' = 0
                   /\ counter' = 0
                   /\ loop_stack' = <<>>
                   /\ rband' = Band_reset.rband
                   /\ lband' = Band_reset.lband
                   /\ debug_mode' = IF debug_mode = "None" THEN "DebugMode" ELSE debug_mode
                   /\ UNCHANGED <<exit_code, stderr>>
    /\ UNCHANGED <<raw, ports, action, left, position, refmodel, modes>>

(***************************************************************************)
(* BrainFuck.run: what the loop does with the driver's answer a.           *)
(***************************************************************************)
\* a = <<"None">> stands for a driver that returned None: action[0] raises
\* TypeError.
RunBranch(a) ==
    /\ phase = "poll"
    /\ CASE a[1] = "exit" ->
              /\ phase' = "exit"
              /\ exit_code' = a[2]
              /\ hist' = hist
              /\ UNCHANGED <<action, left, position, engine, stderr>>
         [] a[1] = "None" ->
              /\ phase' = "crash"
              /\ stderr' = "TypeError"
              /\ hist' = hist
              /\ UNCHANGED <<action, left, position, engine, exit_code>>
         [] a[1] = "s" ->
              /\ action' = a
              /\ left' = Max(a[2], 0)
              /\ phase' = IF a[2] > 0 THEN "s" ELSE "poll"
              /\ hist' = [hist EXCEPT !.c0 = counter, !.p0 = pointer,
                                      !.k0 = StepsUntilTerminal(Engine, MaxStepArg)]
              /\ UNCHANGED <<exit_code, position, engine, stderr>>
         [] a[1] = "p" ->
              /\ action' = a
              /\ position' = Min(a[2], Len(program))
              /\ phase' = IF pointer < Min(a[2], Len(program)) THEN "p" ELSE "poll"
              /\ hist' = [hist EXCEPT !.c0 = counter, !.p0 = pointer, !.k0 = 0]
              /\ UNCHANGED <<exit_code, left, engine, stderr>>
         [] a[1] = "r" ->
              /\ action' = a
              /\ LET e == run_reset(Engine)
                 IN  /\ pointer' = e.pointer
                     /\ counter' = e.counter
                     /\ rband' = e.rband
                     /\ lband' = e.lband
                     /\ loop_stack' = e.loop_stack
              /\ hist' = [hist EXCEPT !.c0 = counter, !.p0 = pointer, !.k0 = 0,
                                      !.r0 = [inpos |-> inpos, incol |-> incol,
                                              sent |-> Len(sent), outf |-> Len(outf)]]
              /\ UNCHANGED <<phase, exit_code, left, position, program, stderr>>
    /\ UNCHANGED <<raw, built, ports, refmodel, ret>>

RunAction(a) ==
    /\ RunBranch(a)
    /\ UNCHANGED <<debug_mode, print_mode, read_mode, show_state>>

\* One _do_step call made by the run loop, which goes on in phase `next`
\* unless the call ended the process.
Call_do_step(next) ==
    /\ InBounds(Engine)
    /\ \E e \in {do_step(Engine)} :
           /\ Install(e)
           /\ phase' = CASE e.fault = "eof" -> "exit"
                         [] e.fault \in {"IndexError", "ValueError"} -> "crash"
                         [] e.fault = "loops" -> "hang"
                         [] OTHER -> next
           /\ exit_code' = IF e.fault = "eof" THEN -2 ELSE exit_code
           /\ stderr' = CASE e.fault = "eof" -> "Read EOF"
                          [] e.fault \in {"IndexError", "ValueError"} -> e.fault
                          [] OTHER -> stderr
    /\ UNCHANGED <<raw, built, program, debug_mode, infile, action, position,
                   hist, refmodel, modes>>

\* for _ in range(action[1]): self._do_step()
StepIter ==
    /\ phase = "s"
    /\ left' = left - 1
    /\ Call_do_step(IF left = 1 THEN "poll" ELSE "s")

\* while self._pointer < position: self._do_step()
UntilIter ==
    /\ phase = "p"
    /\ UNCHANGED left
    /\ LET e == do_step(Engine)
       IN  Call_do_step(IF e.pointer < position THEN "p" ELSE "poll")

(***************************************************************************)
(* The driver's decisions.  A driver given by the caller may answer        *)
(* anything; the default driver is DebugMode.                              *)
(***************************************************************************)
StepArgs == (0 - 1) .. MaxStepArg

UntilArgs == (0 - 1) .. (Len(program) + 1)

DecideStep == \E n \in StepArgs : debug_mode = "External" /\ RunAction(<<"s", n>>)

DecideUntil == \E P \in UntilArgs : debug_mode = "External" /\ RunAction(<<"p", P>>)

DecideReset == debug_mode = "External" /\ RunAction(<<"r">>)

DecideHalt == debug_mode = "External" /\ RunAction(<<"exit", 0>>)

PollDebugMode ==
    /\ debug_mode = "DebugMode"
    /\ RunAction(DebugMode_debug(Engine))

(***************************************************************************)
(* set_print_mode, set_read_mode, set_debug_mode.  An object is a record   *)
(* [class, base]; mro(class) is the class and the classes it inherits      *)
(* from.  The caller's driver calls them from inside debug(), that is      *)
(* between two batches of the run loop.                                    *)
(***************************************************************************)
mro(class) ==
    CASE class \in {"CharPrintMode", "IntBasePrintMode"} -> {class, "PrintMode"}
      [] class \in {"CharReadMode", "IntBaseReadMode"} -> {class, "ReadMode"}
      [] class \in {"DefaultDebugMode", "External"} -> {class, "DebugMode"}
      [] OTHER -> {class}

\* type(obj) is cls
isinstance_exact(obj, cls) == obj.class = cls

isinstance(obj, cls) == cls \in mro(obj.class)

\* the new self._print_mode and the value returned
set_print_mode(mode) ==
    IF isinstance(mode, "PrintMode") THEN <<mode, TRUE>> ELSE <<print_mode, FALSE>>

\* the new self._read_mode and the value returned
set_read_mode(mode) ==
    IF isinstance(mode, "ReadMode") THEN <<mode, TRUE>> ELSE <<read_mode, FALSE>>

\* the new self._debug_mode and the value returned
set_debug_mode(mode) ==
    IF isinstance(mode, "DebugMode") THEN <<mode.class, TRUE>> ELSE <<debug_mode, FALSE>>

\* The arguments the setters are called with
Objects ==
    {[class |-> c, base |-> 0] : c \in {"PrintMode", "CharPrintMode", "ReadMode",
                                        "CharReadMode", "DebugMode", "External", "str"}}
    \cup {[class |-> c, base |-> 16] : c \in {"IntBasePrintMode", "IntBaseReadMode"}}

SetterCall(method, mode, r) ==
    /\ built
    /\ phase = "poll"
    /\ debug_mode = "External"
    /\ ret' = <<method, mode, r[2]>>
    /\ UNCHANGED <<phase, raw, built, engine, ports, stderr, exit_code, action, left,
                   position, hist, refmodel, show_state>>

SetPrintMode ==
    \E mode \in Objects :
        /\ SetterCall("set_print_mode", mode, set_print_mode(mode))
        /\ print_mode' = set_print_mode(mode)[1]
        /\ UNCHANGED <<read_mode, debug_mode>>

SetReadMode ==
    \E mode \in Objects :
        /\ SetterCall("set_read_mode", mode, set_read_mode(mode))
        /\ read_mode' = set_read_mode(mode)[1]
        /\ UNCHANGED <<print_mode, debug_mode>>

SetDebugMode ==
    \E mode \in Objects :
        /\ SetterCall("set_debug_mode", mode, set_debug_mode(mode))
        /\ debug_mode' = set_debug_mode(mode)[1]
        /\ UNCHANGED <<print_mode, read_mode>>

(***************************************************************************)
(* DefaultDebugMode.debug having read the line `line` (or found the end of *)
(* self.inf): the value returned (<<"exit", code>> for exit(code),         *)
(* <<"None">> when the method ends without a return statement) and the     *)
(* strategies and show_state it leaves.  What it writes to self.outf is    *)
(* not modelled.                                                           *)
(***************************************************************************)
DefaultDebugMode_debug(line, eof) ==
    LET uin  == strip(line)
        arg  == int(strip(Tail(uin)))
        tail == strip(Tail(uin))
        same == [ret |-> <<"s", 0>>, print_mode |-> print_mode, read_mode |-> read_mode,
                 debug_mode |-> debug_mode, show_state |-> show_state]
    IN  IF eof THEN [same EXCEPT !.ret = <<"exit", 0 - 2>>]
        ELSE IF uin = <<>> THEN [same EXCEPT !.ret = <<"s", 1>>]
        ELSE CASE uin[1] \in {"?", "h"} -> same
               [] uin[1] = "i" ->
                    LET value == Min(Max(IF arg.ok THEN arg.value ELSE 10, 2), 36)
                    IN  [same EXCEPT !.read_mode =
                            set_read_mode([class |-> "IntBaseReadMode", base |-> value])[1]]
               [] uin[1] = "c" ->
                    [same EXCEPT !.read_mode =
                        set_read_mode([class |-> "CharReadMode", base |-> 0])[1]]
               [] uin[1] = "I" ->
                    LET value == Max(IF arg.ok THEN arg.value ELSE 10, 2)
                    IN  [same EXCEPT !.print_mode =
                            set_print_mode([class |-> "IntBasePrintMode",
                                            base |-> IF value > 36 THEN 64 ELSE value])[1]]
               [] uin[1] = "C" ->
                    [same EXCEPT !.print_mode =
                        set_print_mode([class |-> "CharPrintMode", base |-> 0])[1]]
               [] uin[1] = "s" ->
                    [same EXCEPT !.ret = <<"s", IF arg.ok THEN arg.value ELSE 1>>]
               [] uin[1] = "p" ->
                    IF tail # <<>> /\ tail[1] = "$"
                    THEN [same EXCEPT !.ret = <<"p", Len(program)>>]
                    ELSE IF int(tail).ok THEN [same EXCEPT !.ret = <<"p", int(tail).value>>]
                    ELSE same
               [] uin[1] = "t" ->
                    [same EXCEPT !.ret = <<"None">>, !.show_state = ~show_state]
               [] uin[1] = "r" -> [same EXCEPT !.ret = <<"r">>]
               [] uin[1] = "e" ->
                    [same EXCEPT !.debug_mode =
                        set_debug_mode([class |-> "DebugMode", base |-> 0])[1]]
               [] uin[1] = "q" -> [same EXCEPT !.ret = <<"exit", 0>>]
               [] OTHER -> same

\* The lines the debugger reads
CommandLines ==
    {<<>>, <<" ">>, <<"h">>, <<"?">>, <<"i">>, <<"i", " ", "1", "6">>, <<"i", "9", "9">>,
     <<"c">>, <<"I">>, <<"I", " ", "9", "9">>, <<"C">>,
     <<"s">>, <<"s", " ", "2">>, <<"s", "-", "1">>, <<"s", "x">>,
     <<"p", " ", "$">>, <<"p", " ", "1">>, <<"p">>,
     <<"t">>, <<"r">>, <<"e">>, <<"q">>, <<"z">>, <<">", " ", "5">>, <<" ", "s", " ">>}

\* action = self._debug_mode.debug() under DefaultDebugMode, and what run()
\* does with it
PollDefaultDebugMode ==
    /\ debug_mode = "DefaultDebugMode"
    /\ \E line \in CommandLines, eof \in BOOLEAN :
          /\ eof => line = <<>>
          /\ \E d \in {DefaultDebugMode_debug(line, eof)} :
                /\ RunBranch(d.ret)
                /\ print_mode' = d.print_mode
                /\ read_mode' = d.read_mode
                /\ debug_mode' = d.debug_mode
                /\ show_state' = d.show_state

(***************************************************************************)
(* The runs of the model: program texts and the input files they read.     *)
(***************************************************************************)
EchoProg   == <<",", ".">>
LoopProg   == <<"[", "-", ">", "+", "<", "]">>
ClearProg  == <<"[", "-", "]">>
NestedProg == <<"+", "+", "[", ">", "+", "[", "-", "]", "<", "-", "]">>
LeftProg   == <<"#", "<", "+", " ", ">", ".", "#">>
SumProg    == <<",", "[", "-", ">", "+", "<", "]", ">", ".">>
OpenProg   == <<"+", "[", "[", "-", "]">>
CloseProg  == <<"-", "]", "[">>

RawPrograms == {EchoProg, LoopProg, ClearProg, NestedProg, LeftProg, SumProg,
                OpenProg, CloseProg}

Lines == {<<"6", "5">>, <<"-", "1">>, <<" ", "2", " ">>, <<"x">>, <<>>}

InputFiles == {<<>>} \cup {<<a>> : a \in Lines}
                     \cup {<<a, b>> : a \in {<<"x">>, <<"2">>}, b \in {<<"6", "5">>, <<>>}}

HasComma(text) == \E i \in 1..Len(text) : text[i] = ","

InitOf(texts, driver, files, print_modes, read_modes) ==
    /\ phase = "new"
    /\ raw \in texts
    /\ built = FALSE
    /\ program = <<>>
    /\ pointer = 0
    /\ counter = 0
    /\ loop_stack = <<>>
    /\ rband = <<>>
    /\ lband = <<>>
    /\ debug_mode = driver
    /\ infile \in IF HasComma(raw) THEN files ELSE {<<>>}
    /\ inpos = 0
    /\ incol = 0
    /\ print_mode \in print_modes
    /\ read_mode \in read_modes
    /\ show_state = TRUE
    /\ ret = <<>>
    /\ outf = <<>>
    /\ stderr = ""
    /\ exit_code = 0
    /\ action = <<>>
    /\ left = 0
    /\ position = 0
    /\ sent = <<>>
    /\ hist = NoHist
    /\ ref = <<>>
    /\ cur = 0
    /\ nops = 0
    /\ written = {}
    /\ back = FALSE

\* BrainFuck(text, debug_mode=driver): the ports are PrintMode() and ReadMode()
InitWith(texts, driver) ==
    InitOf(texts, driver, InputFiles, {[class |-> "PrintMode", base |-> 0]},
           {[class |-> "ReadMode", base |-> 0]})

Init == InitWith(RawPrograms, "External")

Next ==
    \/ Construct
    \/ DecideStep
    \/ DecideUntil
    \/ DecideReset
    \/ DecideHalt
    \/ StepIter
    \/ UntilIter

Spec == Init /\ [][Next]_vars

\* A driver of the caller's that never answers ('r',)
NextNoReset ==
    \/ Construct
    \/ DecideStep
    \/ DecideUntil
    \/ DecideHalt
    \/ StepIter
    \/ UntilIter

SpecNoReset == Init /\ [][NextNoReset]_vars


(***************************************************************************)
(* The default driver: BrainFuck(text).run().  The run loop is the only    *)
(* thread and goes on until a call of exit(), hence the fairness.          *)
(***************************************************************************)
InitDebugMode == InitWith(RawPrograms, "None")

NextDebugMode ==
    \/ Construct
    \/ PollDebugMode
    \/ StepIter

SpecDebugMode == InitDebugMode /\ [][NextDebugMode]_vars /\ WF_vars(NextDebugMode)

(***************************************************************************)
(* Construction from every short text over an alphabet with a comment      *)
(* character, followed by the run under the default driver.                *)
(***************************************************************************)
RawAlphabet == {"[", "]", "+", "#"}

RawTexts == UNION {[1..n -> RawAlphabet] : n \in 0..MaxRawLen}

InitConstruct == InitWith(RawTexts, "None")

SpecConstruct == InitConstruct /\ [][NextDebugMode]_vars

(***************************************************************************)
(* BrainFuck(text, print_mode, read_mode).run(): every port class, under   *)
(* the default driver.                                                     *)
(***************************************************************************)
PrintModes == {[class |-> "PrintMode", base |-> 0], [class |-> "CharPrintMode", base |-> 0]}
              \cup {[class |-> "IntBasePrintMode", base |-> b] : b \in {2, 10, 36, 64}}

ReadModes == {[class |-> "ReadMode", base |-> 0], [class |-> "CharReadMode", base |-> 0]}
             \cup {[class |-> "IntBaseReadMode", base |-> b] : b \in {2, 16, 37}}

ReadThenSend == <<"+", ",", ".">>
SendMinus    == <<"-", ".">>
ReadTwice    == <<",", "-", ",", ".">>

PortPrograms == {EchoProg, ReadThenSend, SendMinus, ReadTwice}

PortFiles ==
    {<<>>} \cup {<<a>> : a \in Lines}
           \cup {<<a, b>> : a \in {<<"x">>, <<"2">>, <<"F", "F">>},
                            b \in {<<"6", "5">>, <<>>, <<"0", "x", "1", "0">>}}
           \cup {<<<<"x">>, <<>>, <<"F", "F">>>>, <<<<"z">>, <<"-", "1", "0", "1">>, <<"7">>>>}

InitPorts == InitOf(PortPrograms, "None", PortFiles, PrintModes, ReadModes)

SpecPorts == InitPorts /\ [][NextDebugMode]_vars

(***************************************************************************)
(* A driver of the caller's that changes the ports and the driver between  *)
(* its decisions, which are Step(n) and Halt.                              *)
(***************************************************************************)
SetterFiles == {<<>>, <<<<"6", "5">>>>, <<<<"x">>, <<"F", "F">>>>}

InitSetters ==
    InitOf({EchoProg, ClearProg}, "External", SetterFiles,
           {[class |-> "PrintMode", base |-> 0]}, {[class |-> "ReadMode", base |-> 0]})

NextSetters ==
    \/ Construct
    \/ DecideStep
    \/ DecideHalt
    \/ PollDebugMode
    \/ StepIter
    \/ SetPrintMode
    \/ SetReadMode
    \/ SetDebugMode

SpecSetters == InitSetters /\ [][NextSetters]_vars

(***************************************************************************)
(* The interactive debugger, as `brainfuck.py -d -r` sets the engine up    *)
(* before run(): DefaultDebugMode, CharPrintMode, IntBaseReadMode(10).     *)
(* The command `e` hands over to DebugMode.                                *)
(***************************************************************************)
InitDefaultDebugMode ==
    InitOf({EchoProg}, "DefaultDebugMode", {<<>>, <<<<"6", "5">>>>},
           {[class |-> "CharPrintMode", base |-> 0]},
           {[class |-> "IntBaseReadMode", base |-> 10]})

NextDefaultDebugMode ==
    \/ Construct
    \/ PollDefaultDebugMode
    \/ PollDebugMode
    \/ StepIter
    \/ UntilIter

SpecDefaultDebugMode == InitDefaultDebugMode /\ [][NextDefaultDebugMode]_vars

(***************************************************************************)
(* The program [->+<] run by the default driver on a band that a harness   *)
(* has written through the Band's own operations: cell 0 = n, cell 1 = m.  *)
(***************************************************************************)
SetupBand ==
    /\ phase = "poll"
    /\ action = <<>>
    /\ hist.cells = <<>>
    /\ \E n \in 0..MaxCell, m \in (0 - 1)..MaxCell :
          LET b == Band_left(Band_set(Band_right(Band_set(
                       [rband |-> rband, lband |-> lband], n)), m))
          IN  /\ rband' = b.rband
              /\ lband' = b.lband
              /\ hist' = [hist EXCEPT !.cells = <<n, m>>]
    /\ UNCHANGED <<phase, raw, built, program, pointer, counter, loop_stack,
                   debug_mode, ports, stderr, exit_code, action, left, position,
                   refmodel, modes>>

InitLoop == InitWith({LoopProg}, "None")

NextLoop ==
    \/ Construct
    \/ SetupBand
    \/ PollDebugMode
    \/ StepIter

SpecLoop == InitLoop /\ [][NextLoop]_vars

(***************************************************************************)
(* A Band alone, beside a reference model: a total map from offset to      *)
(* value and a cursor.                                                     *)
(***************************************************************************)
Offsets == (0 - MaxBandOps - 1) .. (MaxBandOps + 1)

SetValues == {0 - 1, 0, 2}

InitBand ==
    /\ phase = "band"
    /\ raw = <<>>
    /\ built = FALSE
    /\ program = <<>>
    /\ pointer = 0
    /\ counter = 0
    /\ loop_stack = <<>>
    /\ rband = Band_reset.rband
    /\ lband = Band_reset.lband
    /\ debug_mode = "None"
    /\ infile = <<>>
    /\ inpos = 0
    /\ incol = 0
    /\ print_mode = [class |-> "PrintMode", base |-> 0]
    /\ read_mode = [class |-> "ReadMode", base |-> 0]
    /\ show_state = TRUE
    /\ ret = <<>>
    /\ outf = <<>>
    /\ stderr = ""
    /\ exit_code = 0
    /\ action = <<>>
    /\ left = 0
    /\ position = 0
    /\ sent = <<>>
    /\ hist = NoHist
    /\ ref = [i \in Offsets |-> 0]
    /\ cur = 0
    /\ nops = 0
    /\ written = {}
    /\ back = FALSE

TheBand == [rband |-> rband, lband |-> lband]

BandOp(b, r, c, w) ==
    /\ nops' = nops + 1
    /\ written' = w
    /\ back' = (c # cur /\ c \in w)
    /\ rband' = b.rband
    /\ lband' = b.lband
    /\ ref' = r
    /\ cur' = c
    /\ UNCHANGED <<phase, raw, built, program, pointer, counter, loop_stack,
                   debug_mode, ports, stderr, exit_code, action, left, position,
                   hist, modes>>

OpLeft ==
    /\ phase = "band"
    /\ nops < MaxBandOps
    /\ BandOp(Band_left(TheBand), ref, cur - 1, written)

OpRight ==
    /\ phase = "band"
    /\ nops < MaxBandOps
    /\ BandOp(Band_right(TheBand), ref, cur + 1, written)

OpPlus ==
    /\ phase = "band"
    /\ nops < MaxBandOps
    /\ BandOp(Band_plus(TheBand), [ref EXCEPT ![cur] = @ + 1], cur,
              written \cup {cur})

OpMinus ==
    /\ phase = "band"
    /\ nops < MaxBandOps
    /\ BandOp(Band_minus(TheBand), [ref EXCEPT ![cur] = @ - 1], cur,
              written \cup {cur})

OpSet ==
    /\ phase = "band"
    /\ nops < MaxBandOps
    /\ \E v \in SetValues :
          BandOp(Band_set(TheBand, v), [ref EXCEPT ![cur] = v], cur, written \cup {cur})

OpReset ==
    /\ phase = "band"
    /\ nops < MaxBandOps
    /\ BandOp(Band_reset, [i \in Offsets |-> 0], 0, {})

NextBand ==
    \/ OpLeft
    \/ OpRight
    \/ OpPlus
    \/ OpMinus
    \/ OpSet
    \/ OpReset

SpecBand == InitBand /\ [][NextBand]_vars

(***************************************************************************)
(* One cell of a Band: set(v) for a value at or next to a power-of-two     *)
(* boundary, then plus() and minus() in any order.  hist.cells holds v,    *)
(* the number of plus() calls and the number of minus() calls.             *)
(***************************************************************************)
CellValues == {0 - 65536, 0 - 256, 0 - 1, 0, 127, 255, 256, 65535}

CellSet ==
    /\ phase = "band"
    /\ hist.cells = <<>>
    /\ \E v \in CellValues :
          /\ rband' = Band_set(TheBand, v).rband
          /\ lband' = Band_set(TheBand, v).lband
          /\ hist' = [hist EXCEPT !.cells = <<v, 0, 0>>]
    /\ UNCHANGED <<phase, raw, built, program, pointer, counter, loop_stack,
                   debug_mode, ports, stderr, exit_code, action, left, position,
                   refmodel, modes>>

CellPlus ==
    /\ phase = "band"
    /\ hist.cells # <<>>
    /\ hist.cells[2] + hist.cells[3] < MaxBandOps
    /\ rband' = Band_plus(TheBand).rband
    /\ lband' = Band_plus(TheBand).lband
    /\ hist' = [hist EXCEPT !.cells[2] = @ + 1]
    /\ UNCHANGED <<phase, raw, built, program, pointer, counter, loop_stack,
                   debug_mode, ports, stderr, exit_code, action, left, position,
                   refmodel, modes>>

CellMinus ==
    /\ phase = "band"
    /\ hist.cells # <<>>
    /\ hist.cells[2] + hist.cells[3] < MaxBandOps
    /\ rband' = Band_minus(TheBand).rband
    /\ lband' = Band_minus(TheBand).lband
    /\ hist' = [hist EXCEPT !.cells[3] = @ + 1]
    /\ UNCHANGED <<phase, raw, built, program, pointer, counter, loop_stack,
                   debug_mode, ports, stderr, exit_code, action, left, position,
                   refmodel, modes>>

NextCell ==
    \/ CellSet
    \/ CellPlus
    \/ CellMinus

SpecCell == InitBand /\ [][NextCell]_vars


(***************************************************************************)
(*                              Properties                                 *)
(***************************************************************************)

\* C1: after every sequence of Band operations on a fresh Band, get() returns
\* what the reference model (a total map from offset to value, 0 everywhere
\* at first, and a cursor) holds at the cursor: the value last written there,
\* and 0 where nothing was written.
C1_GetMatchesReference ==
    phase = "band" => Band_get(TheBand) = ref[cur]

\* A move has brought the cursor back onto a cell written earlier, next to
\* a cell that was never written, and get() returns the written value.
C1_Witness ==
    /\ phase = "band"
    /\ back
    /\ Band_get(TheBand) = 3
    /\ cur + 1 \notin written


(***************************************************************************)
(* Bracket balance stated on the text itself: the depth after the first i  *)
(* characters counts '[' and ']' and nothing else.                         *)
(***************************************************************************)
Depth(text, i) ==
    Cardinality({j \in 1..i : text[j] = "["}) - Cardinality({j \in 1..i : text[j] = "]"})

Balanced(text) ==
    /\ \A i \in 0..Len(text) : Depth(text, i) >= 0
    /\ Depth(text, Len(text)) = 0

HasChar(text, c) == \E i \in 1..Len(text) : text[i] = c

\* C2: sanitize followed by check_valid accepts a raw text (the engine is
\* built) if and only if no prefix of the text has more ']' than '[' and the
\* totals are equal, whatever comment characters the text holds.
C2_AcceptsIffBalanced ==
    phase # "new" /\ phase # "band" =>
        /\ built <=> Balanced(raw)
        /\ built => program = SelectSeq(raw, LAMBDA x : x # "#")

\* A text with a comment character between its brackets was accepted.
C2_Witness ==
    /\ built
    /\ \E i, j, k \in 1..Len(raw) :
          i < j /\ j < k /\ raw[i] = "[" /\ raw[j] = "#" /\ raw[k] = "]"

\* C3: construction from a text with unbalanced brackets ends the process
\* with exit code -1, with no engine field created, no driver poll, no step
\* and no port call; check_valid ends at the first character that makes the
\* depth negative, and otherwise after the last character.
C3_UnbalancedIsFatal ==
    (phase # "new" /\ phase # "band" /\ ~Balanced(raw)) =>
        LET prog == sanitize(raw)
            neg  == {i \in 1..Len(prog) : Depth(prog, i) < 0}
        IN  /\ phase = "exit"
            /\ exit_code = 0 - 1
            /\ ~built
            /\ engine = <<<<>>, 0, 0, <<>>, <<>>, <<>>>>
            /\ action = <<>>
            /\ inpos = 0
            /\ outf = <<>>
            /\ sent = <<>>
            /\ IF neg # {}
               THEN /\ \A i \in neg : hist.scanned <= i
                    /\ hist.scanned \in neg
                    /\ stderr = "not balanced"
               ELSE /\ hist.scanned = Len(prog)
                    /\ stderr = "not enough closing"

\* check_valid ended the process before the end of the program text.
C3_Witness ==
    /\ phase = "exit"
    /\ exit_code = 0 - 1
    /\ stderr = "not balanced"
    /\ hist.scanned < Len(sanitize(raw))
    /\ HasChar(raw, "#")


\* C4: the program [->+<] started at pointer 0 on cell 0 = n >= 1 and
\* cell 1 = m runs to completion: it takes 5n + 1 steps, the run is never
\* stuck before exit(0), and it ends with cell 0 = 0, cell 1 = m + n, the
\* cursor on cell 0, the pointer at the program length and the loop stack
\* empty.
C4_LoopMovesCell ==
    (raw = LoopProg /\ hist.cells # <<>> /\ hist.cells[1] >= 1) =>
        /\ counter <= 5 * hist.cells[1] + 1
        /\ phase = "exit" \/ ENABLED NextLoop
        /\ phase \notin {"crash", "p"}
        /\ phase = "exit" =>
              /\ exit_code = 0
              /\ rband = <<0, hist.cells[2] + hist.cells[1]>>
              /\ lband = <<>>
              /\ pointer = Len(program)
              /\ loop_stack = <<>>
              /\ counter = 5 * hist.cells[1] + 1

\* The case n = 3, m = 0 has run to completion.
C4_Witness ==
    /\ raw = LoopProg
    /\ hist.cells = <<3, 0>>
    /\ phase = "exit"
    /\ rband = <<0, 3>>


Polled(kind) == built /\ phase = "poll" /\ action # <<>> /\ action[1] = kind

\* C5: when the batch of a Step(n) decision taken at step counter c is over,
\* the step counter is c + min(max(n, 0), k), k being the number of steps
\* that were left until the pointer reached the program length; when fewer
\* than n were left, the pointer is at the program length.
C5_StepCount ==
    Polled("s") =>
        /\ counter = hist.c0 + Min(Max(action[2], 0), hist.k0)
        /\ hist.k0 < action[2] => pointer = Len(program)
        /\ action[2] <= 0 => pointer = hist.p0

\* A Step(3) batch is over that executed one step and absorbed two.
C5_Witness ==
    /\ Polled("s")
    /\ action[2] = 3
    /\ hist.c0 > 0
    /\ counter = hist.c0 + 1

\* C6: a _do_step call made when the pointer is at the program length
\* changes neither the pointer, the step counter, the band, the loop stack
\* nor the output, calls no port and does not end the process.
C6_TerminalStepIsNoOp ==
    /\ [](built /\ pointer = Len(program) => do_step(Engine) = Engine)
    /\ [][(phase \in {"s", "p"} /\ pointer = Len(program)) =>
            /\ UNCHANGED <<engine, ports>>
            /\ phase' \in {"s", "poll"}]_vars

\* Two calls of a Step(3) batch were made, the second at the program length,
\* and the third is still to come.
C6_Witness ==
    /\ phase = "s"
    /\ pointer = Len(program)
    /\ action = <<"s", 3>>
    /\ left = 1
    /\ counter = hist.c0 + 1
    /\ sent # <<>>

\* C7: the Reset decision, whatever state it is taken in, leaves pointer 0,
\* step counter 0 and the band of a fresh Band (rband [0], lband empty);
\* a second Reset right after it changes nothing.
C7_Reset ==
    /\ [](Polled("r") =>
            /\ pointer = 0
            /\ counter = 0
            /\ rband = <<0>>
            /\ lband = <<>>)
    /\ [](built => run_reset(run_reset(Engine)) = run_reset(Engine))
    /\ [][(Polled("r") /\ action' = <<"r">> /\ phase' = "poll") =>
            UNCHANGED <<engine, ports>>]_vars

\* A Reset was taken inside an open loop, after the band had grown.
C7_Witness ==
    /\ Polled("r")
    /\ hist.p0 > 0
    /\ hist.p0 < Len(program)
    /\ hist.c0 > 5
    /\ loop_stack # <<>>


\* The run from the current state reaches the program length within the
\* model's bound on the step counter.
ReachesTerminal ==
    StepsUntilTerminal(Engine, MaxCounter - counter) <= MaxCounter - counter

\* C8: under the default driver the run loop executes exactly one
\* instruction between two polls, exit(0) is called at the first poll that
\* finds the pointer at the program length and at no other, and a run whose
\* execution reaches the program length ends with exit code 0.
C8_DefaultDriver ==
    /\ [](Polled("s") => action = <<"s", 1>> /\ counter = hist.c0 + 1)
    /\ [](phase = "s" => left = 1 /\ counter = hist.c0 /\ pointer < Len(program))
    /\ [](phase = "exit" /\ exit_code = 0 => pointer = Len(program))
    /\ [][phase = "poll" => (pointer = Len(program) <=> phase' = "exit" /\ exit_code' = 0)]_vars
    /\ (built /\ phase = "poll" /\ ReachesTerminal) ~> (phase = "exit" /\ exit_code = 0)

\* The nested loops of NestedProg were run to the end and the driver halted.
C8_Witness ==
    /\ raw = NestedProg
    /\ phase = "exit"
    /\ exit_code = 0
    /\ counter > Len(program)

\* The position a RunUntil(P) batch runs to.
UntilBound == IF action[2] < Len(program) THEN action[2] ELSE Len(program)

\* C9: when the batch of a RunUntil(P) decision is over the pointer is at
\* least min(P, len(program)); while the batch goes on the pointer is below
\* that bound, so it stops at the first state that satisfies it; and it
\* executes no step when the pointer satisfies the bound at the start.
C9_RunUntil ==
    /\ Polled("p") => /\ pointer >= UntilBound
                      /\ hist.p0 >= UntilBound => counter = hist.c0 /\ pointer = hist.p0
    /\ phase = "p" => /\ pointer < UntilBound
                      /\ position = UntilBound
                      /\ hist.p0 < UntilBound

\* A RunUntil beyond the program length, taken in mid-run, has run a loop to
\* the end of the program.
C9_Witness ==
    /\ Polled("p")
    /\ action[2] > Len(program)
    /\ hist.p0 > 0
    /\ counter > hist.c0 + Len(program)
    /\ pointer = Len(program)

\* The values the lines of a file parse to, in order.
RECURSIVE InputValues(_)
InputValues(file) ==
    IF file = <<>> THEN <<>>
    ELSE LET p == int(strip(Head(file)))
         IN  (IF p.ok THEN <<p.value>> ELSE <<>>) \o InputValues(Tail(file))

NumRead == Len(InputValues(SubSeq(infile, 1, inpos)))

Executing(char) ==
    /\ phase \in {"s", "p"}
    /\ pointer < Len(program)
    /\ program[pointer + 1] = char
    /\ counter' = counter + 1

\* C10: every executed '.' passes the current cell's value to the output
\* port, and nothing else does; the i-th executed ',' stores the i-th value
\* of the input in the current cell; the program ,. with the single input
\* line 65 sends exactly the value 65.
C10_PortValues ==
    /\ [][Executing(".") => sent' = Append(sent, rband[1])]_vars
    /\ [][sent' # sent => Executing(".")]_vars
    /\ [][Executing(",") => /\ NumRead' = NumRead + 1
                            /\ rband'[1] = InputValues(infile)[NumRead + 1]
                            /\ Tail(rband') = Tail(rband)]_vars
    /\ [][inpos' # inpos => Executing(",") \/ phase' = "exit"]_vars
    /\ []((built /\ raw = EchoProg /\ infile = <<<<"6", "5">>>> /\ pointer = Len(program))
            => sent = <<65>> /\ outf = <<"6", "5", ";">>)

\* The program ,. has echoed 65.
C10_Witness ==
    /\ built
    /\ raw = EchoProg
    /\ infile = <<<<"6", "5">>>>
    /\ pointer = Len(program)
    /\ sent = <<65>>


\* C11: plus() adds exactly 1 to the current cell and minus() subtracts
\* exactly 1, also where the value crosses 0, 255/256 or -1: after set(v),
\* p calls of plus() and m calls of minus() in any order the cell holds
\* v + p - m, so k plus() followed by k minus() give v back.
C11_NoWrap ==
    /\ [](phase = "band" /\ hist.cells # <<>> =>
             Band_get(TheBand) = hist.cells[1] + hist.cells[2] - hist.cells[3])
    /\ [][phase = "band" /\ hist.cells # <<>> /\ hist'.cells[2] # hist.cells[2] =>
             rband'[1] = rband[1] + 1]_vars
    /\ [][phase = "band" /\ hist.cells # <<>> /\ hist'.cells[3] # hist.cells[3] =>
             rband'[1] = rband[1] - 1]_vars

\* From 255, three plus() and three minus() have given 255 back.
C11_Witness ==
    /\ phase = "band"
    /\ hist.cells = <<255, 3, 3>>
    /\ Band_get(TheBand) = 255


\* What int() makes of a line under the numeric read mode in use
ParseLine(line) ==
    IF read_mode.class = "ReadMode" THEN int(strip(line))
    ELSE int_base(strip(line), read_mode.base)

\* The lines not yet read that parse
Parsable == {i \in (inpos + 1)..Len(infile) : ParseLine(infile[i]).ok}

\* The next call of _do_step dispatches char
Dispatching(char) ==
    /\ phase \in {"s", "p"}
    /\ pointer < Len(program)
    /\ program[pointer + 1] = char

\* C12: a ',' under ReadMode or IntBaseReadMode stores the value of the
\* first unread line that parses as an integer, having consumed that line
\* and the unparsable lines before it without an error; when no unread line
\* parses the process ends with exit code -2 and that ',' has changed
\* neither the band, the pointer nor the step counter.
C12_NumericRead ==
    [][(Dispatching(",") /\ read_mode.class \in {"ReadMode", "IntBaseReadMode"}) =>
         IF Parsable # {}
         THEN LET i == CHOOSE k \in Parsable : \A j \in Parsable : k <= j
              IN  /\ rband' = [rband EXCEPT ![1] = ParseLine(infile[i]).value]
                  /\ inpos' = i
                  /\ phase' \in {"s", "poll"}
                  /\ pointer' = pointer + 1
                  /\ counter' = counter + 1
                  /\ stderr' = stderr
         ELSE /\ phase' = "exit"
              /\ exit_code' = 0 - 2
              /\ inpos' = Len(infile)
              /\ UNCHANGED <<pointer, counter, rband, lband, loop_stack, outf>>]_vars

\* Under IntBaseReadMode(2) the first ',' of ,-,. has skipped the line z and
\* stored -101 (base 2), and the second has found no line that parses: the
\* process has ended with exit code -2 and the cell still holds -5 - 1.
C12_Witness ==
    /\ raw = ReadTwice
    /\ read_mode = [class |-> "IntBaseReadMode", base |-> 2]
    /\ infile = <<<<"z">>, <<"-", "1", "0", "1">>, <<"7">>>>
    /\ phase = "exit"
    /\ exit_code = 0 - 2
    /\ rband = <<0 - 6>>
    /\ pointer = 2
    /\ counter = 2


\* C13: a '.' is total under every print mode (PrintMode, CharPrintMode,
\* IntBasePrintMode with base 2..36 or 64) and every cell value, positive,
\* zero or negative: the step completes, the pointer and the step counter
\* advance by 1 and the run loop goes on.
C13_DotIsTotal ==
    [][Dispatching(".") =>
         /\ phase' \in {"s", "poll"}
         /\ pointer' = pointer + 1
         /\ counter' = counter + 1]_vars


PrintClasses == {"PrintMode", "CharPrintMode", "IntBasePrintMode"}
ReadClasses  == {"ReadMode", "CharReadMode", "IntBaseReadMode"}
DebugClasses == {"DebugMode", "DefaultDebugMode", "External"}

\* C14: set_print_mode, set_read_mode and set_debug_mode return True and
\* replace the strategy when the argument is a PrintMode, a ReadMode or a
\* DebugMode respectively (an instance of the class or of a subclass), and
\* return False and leave every strategy as it was otherwise; in both cases
\* the pointer, the step counter, the band, the loop stack and the files
\* are unchanged.
C14_Setters ==
    [][ret' # ret =>
         LET method == ret'[1]
             mode   == ret'[2]
             value  == ret'[3]
         IN  /\ UNCHANGED <<program, pointer, counter, rband, lband, loop_stack, ports, phase>>
             /\ method = "set_print_mode" =>
                   /\ value <=> mode.class \in PrintClasses
                   /\ print_mode' = IF value THEN mode ELSE print_mode
                   /\ UNCHANGED <<read_mode, debug_mode>>
             /\ method = "set_read_mode" =>
                   /\ value <=> mode.class \in ReadClasses
                   /\ read_mode' = IF value THEN mode ELSE read_mode
                   /\ UNCHANGED <<print_mode, debug_mode>>
             /\ method = "set_debug_mode" =>
                   /\ value <=> mode.class \in DebugClasses
                   /\ debug_mode' = IF value THEN mode.class ELSE debug_mode
                   /\ UNCHANGED <<print_mode, read_mode>>]_vars

\* In mid-run, after the read mode was set to IntBaseReadMode(16) and the
\* print mode to CharPrintMode, set_read_mode was called with a CharPrintMode
\* and returned False.
C14_Witness ==
    /\ ret = <<"set_read_mode", [class |-> "CharPrintMode", base |-> 0], FALSE>>
    /\ read_mode = [class |-> "IntBaseReadMode", base |-> 16]
    /\ print_mode = [class |-> "CharPrintMode", base |-> 0]
    /\ counter > 0
    /\ pointer < Len(program)


\* C15 as stated: a ']' dispatched on a non-zero cell leaves the pointer
\* equal to the top of the loop stack, not advanced by 1, and the stack
\* unchanged; on a zero cell it pops the top and advances the pointer by 1.
C15_EndLoopAtTop ==
    [][(Dispatching("]") /\ counter' = counter + 1) =>
         IF rband[1] # 0
         THEN pointer' = loop_stack[1] /\ loop_stack' = loop_stack
         ELSE pointer' = pointer + 1 /\ loop_stack' = Tail(loop_stack)]_vars

\* C15, amended: a ']' dispatched on a non-zero cell leaves the pointer one
\* past the top of the loop stack, that is on the first instruction of the
\* loop body (the assignment in _endloop is followed by _do_step's
\* increment), and the stack unchanged; on a zero cell it pops the top and
\* advances the pointer by 1.  The band is unchanged in both cases.
C15_EndLoop ==
    [][(Dispatching("]") /\ counter' = counter + 1) =>
         /\ loop_stack # <<>>
         /\ UNCHANGED <<rband, lband, ports>>
         /\ IF rband[1] # 0
            THEN pointer' = loop_stack[1] + 1 /\ loop_stack' = loop_stack
            ELSE pointer' = pointer + 1 /\ loop_stack' = Tail(loop_stack)]_vars

\* The ']' of [-] has jumped back on cell -1: the pointer is on the '-'.
C15_Witness ==
    /\ raw = ClearProg
    /\ pointer = 1
    /\ counter = 3
    /\ loop_stack = <<0>>
    /\ rband = <<0 - 1>>


\* C16: after a Reset decision, whatever state it is taken in (inside open
\* loops too), the loop stack is empty.
C16_ResetEmptiesStack ==
    Polled("r") => loop_stack = <<>>


\* C17: in a run without a Reset, in every state between two steps the
\* length of the loop stack is the nesting depth at the pointer, the number
\* of '[' minus the number of ']' among the first `pointer` characters of
\* the program; the stack is empty when the pointer is at the program
\* length.
C17_StackIsDepth ==
    built =>
        /\ Len(loop_stack) = Depth(program, pointer)
        /\ pointer = Len(program) => loop_stack = <<>>

\* The inner loop of NestedProg is open in a later iteration of the outer
\* one.
C17_Witness ==
    /\ raw = NestedProg
    /\ pointer = 6
    /\ loop_stack = <<5, 2>>
    /\ counter > 10


\* The index of the '[' that matches the ']' at index j of the text: the
\* last '[' before j that is at the depth the ']' returns to.
MatchingOpen(text, j) ==
    CHOOSE i \in 0..(j - 1) :
        /\ text[i + 1] = "["
        /\ Depth(text, i) = Depth(text, j + 1)
        /\ \A k \in (i + 1)..(j - 1) :
              ~(text[k + 1] = "[" /\ Depth(text, k) = Depth(text, j + 1))

\* C18: whatever the order of the Step, RunUntil and Reset decisions,
\* whenever the next instruction is a ']' the loop stack is not empty and
\* its top is the index of the '[' that matches this ']'.
C18_TopIsMatchingOpen ==
    (built /\ pointer < Len(program) /\ program[pointer + 1] = "]") =>
        /\ loop_stack # <<>>
        /\ loop_stack[1] = MatchingOpen(program, pointer)

\* After a Reset taken inside the outer loop of NestedProg, the inner ']' is
\* next: the stack holds an entry more than the depth, and its top is the
\* inner '['.
C18_Witness ==
    /\ raw = NestedProg
    /\ pointer = 7
    /\ program[pointer + 1] = "]"
    /\ Len(loop_stack) > Depth(program, pointer)
    /\ loop_stack[1] = 5


\* C19: the pointer is always between 0 and the program length; every
\* executed step but a ']' on a non-zero cell increases it by exactly 1;
\* and once it is at the program length only a Reset decision changes it.
C19_PointerRange ==
    /\ [](built => 0 <= pointer /\ pointer <= Len(program))
    /\ [][(phase \in {"s", "p"} /\ counter' = counter + 1
            /\ ~(program[pointer + 1] = "]" /\ rband[1] # 0))
           => pointer' = pointer + 1]_vars
    /\ [][(built /\ pointer = Len(program) /\ pointer' # pointer)
           => phase = "poll" /\ action' = <<"r">>]_vars

\* A RunUntil decided when the pointer was at the program length, after a
\* run through a loop, has left it there.
C19_Witness ==
    /\ Polled("p")
    /\ hist.p0 = Len(program)
    /\ pointer = Len(program)
    /\ counter > Len(program)
    /\ action[2] < Len(program)


\* The command lines that request no execution: help, port changes, the
\* state display toggle, leaving the debugger, unrecognized input
NoExecutionLines ==
    {line \in CommandLines :
        strip(line) # <<>> /\ strip(line)[1] \notin {"s", "p", "r", "q"}}

PolledByDefaultDebugMode == built /\ phase = "poll" /\ debug_mode = "DefaultDebugMode"

\* C20: every poll of DefaultDebugMode.debug, whatever command line it
\* reads, yields a decision (step n times, run until P, reset, or the end of
\* the process by exit) that the run loop acts on; a command line that
\* requests no execution yields a decision of zero steps, which leaves the
\* pointer, the step counter and the band unchanged and is followed by the
\* next poll.
C20_EveryPollDecides ==
    /\ [][PolledByDefaultDebugMode => phase' \in {"poll", "s", "p", "exit"}]_vars
    /\ [](PolledByDefaultDebugMode =>
            \A line \in NoExecutionLines :
                DefaultDebugMode_debug(line, FALSE).ret = <<"s", 0>>)
    /\ [][(PolledByDefaultDebugMode /\ action' = <<"s", 0>> /\ phase' # "exit") =>
            /\ phase' = "poll"
            /\ UNCHANGED <<pointer, counter, rband, lband>>]_vars


\* The value of the logical tape k cells to the right of the cursor (to the
\* left for k < 0): a cell the band does not hold is 0.
CellAt(rb, lb, k) ==
    IF k >= 0 THEN (IF k + 1 <= Len(rb) THEN rb[k + 1] ELSE 0)
    ELSE (IF 0 - k <= Len(lb) THEN lb[0 - k] ELSE 0)

TapeWindow == (0 - MaxCounter - 2) .. (MaxCounter + 2)

\* C21: an executed '+' or '-' changes the current cell's value only (by 1)
\* and leaves the cursor, every other cell and the loop stack unchanged;
\* '<' and '>' move the cursor by one cell, change no value of the logical
\* tape and leave the loop stack unchanged; '.' leaves band and loop stack
\* unchanged; ',' changes the current cell only; '[' and ']' leave the band
\* unchanged.
C21_Frames ==
    /\ [][Executing("+") => /\ rband' = [rband EXCEPT ![1] = @ + 1]
                            /\ UNCHANGED <<lband, loop_stack, ports>>]_vars
    /\ [][Executing("-") => /\ rband' = [rband EXCEPT ![1] = @ - 1]
                            /\ UNCHANGED <<lband, loop_stack, ports>>]_vars
    /\ [][Executing("<") =>
            /\ \A k \in TapeWindow : CellAt(rband', lband', k) = CellAt(rband, lband, k - 1)
            /\ UNCHANGED <<loop_stack, ports>>]_vars
    /\ [][Executing(">") =>
            /\ \A k \in TapeWindow : CellAt(rband', lband', k) = CellAt(rband, lband, k + 1)
            /\ UNCHANGED <<loop_stack, ports>>]_vars
    /\ [][Executing(".") => UNCHANGED <<rband, lband, loop_stack, inpos, incol>>]_vars
    /\ [][Executing(",") => /\ Tail(rband') = Tail(rband)
                            /\ Len(rband') = Len(rband)
                            /\ UNCHANGED <<lband, loop_stack, outf, sent>>]_vars
    /\ [][Executing("[") \/ Executing("]") => UNCHANGED <<rband, lband, ports>>]_vars

\* In SumProg the '>' after the loop has moved the cursor off the emptied
\* cell onto the cell that holds the value read.
C21_Witness ==
    /\ raw = SumProg
    /\ pointer = 8
    /\ lband = <<0>>
    /\ rband = <<2>>


\* C22: after every sequence of Band operations rband is not empty, so
\* rband[0] exists for get, set, plus and minus; a left move with lband
\* empty and a right move with a single cell in rband each make a new cell of
\* value 0 the current cell and keep every cell the band held, in order.
C22_CurrentSideNonEmpty ==
    /\ [](phase = "band" => rband # <<>>)
    /\ [][(phase = "band" /\ cur' = cur - 1 /\ ref' = ref /\ lband = <<>>) =>
            /\ rband' = <<0>> \o rband
            /\ lband' = <<>>]_vars
    /\ [][(phase = "band" /\ cur' = cur + 1 /\ ref' = ref /\ Len(rband) = 1) =>
            /\ rband' = <<0>>
            /\ lband' = rband \o lband]_vars

\* Two right moves past the last cell, each after a write, have made a new
\* current cell of value 0 and kept the two written cells.
C22_Witness ==
    /\ phase = "band"
    /\ cur = 2
    /\ rband = <<0>>
    /\ lband = <<0 - 1, 2>>
    /\ written = {0, 1}


\* C23: an executed '[' pushes the pointer and advances to pointer + 1
\* whatever the current cell holds, 0 included, and a ']' is the only step
\* that pops or jumps; so the program [-] started on a zero cell never
\* reaches the program length: it decrements the cell once per round, the
\* cell is below 0 at every ']', and the pointer stays within the loop.
C23_LoopNeverSkipped ==
    /\ [][Executing("[") => /\ loop_stack' = <<pointer>> \o loop_stack
                            /\ pointer' = pointer + 1]_vars
    /\ [][(phase \in {"s", "p"} /\ counter' = counter + 1
            /\ (pointer' # pointer + 1 \/ Len(loop_stack') < Len(loop_stack)))
           => program[pointer + 1] = "]"]_vars
    /\ []((built /\ raw = ClearProg) =>
            /\ pointer < Len(program)
            /\ lband = <<>>
            /\ pointer = 0 => counter = 0 /\ rband = <<0>>
            /\ pointer = 1 => rband = <<0 - ((counter - 1) \div 2)>>
            /\ pointer = 2 => rband = <<0 - (counter \div 2)>> /\ rband[1] < 0)

\* The body of [-], entered on a zero cell, has run three times.
C23_Witness ==
    /\ raw = ClearProg
    /\ pointer = 1
    /\ counter = 7
    /\ rband = <<0 - 3>>


\* The engine BrainFuck(text) constructs, its read mode about to read what
\* was unread at the offsets r0, and its output file empty
Fresh(r0) ==
    [pointer |-> 0, counter |-> 0, loop_stack |-> <<>>, rband |-> Band_reset.rband,
     lband |-> Band_reset.lband, inpos |-> r0.inpos, incol |-> r0.incol,
     outf |-> <<>>, sent |-> <<>>, fault |-> ""]

\* The engine after k calls of _do_step
RECURSIVE AfterSteps(_, _)
AfterSteps(e, k) ==
    IF k = 0 THEN e
    ELSE CHOOSE r \in {AfterSteps(after, k - 1) : after \in {do_step(e)}} : TRUE

\* C24: after a Reset taken in any state, and any Step and RunUntil
\* decisions after it, the pointer, the step counter, the band, the values
\* sent and the text written since the Reset are, after every step, those
\* of a freshly constructed engine that has executed as many steps on the
\* same input; the loop stack is the fresh engine's on top of whatever it
\* held at the Reset.
C24_ResetIsFreshStart ==
    (built /\ phase \in {"poll", "s", "p"}) =>
        LET f == AfterSteps(Fresh(hist.r0), counter)
        IN  /\ f.fault = ""
            /\ pointer = f.pointer
            /\ counter = f.counter
            /\ rband = f.rband
            /\ lband = f.lband
            /\ inpos = f.inpos
            /\ SubSeq(sent, hist.r0.sent + 1, Len(sent)) = f.sent
            /\ SubSeq(outf, hist.r0.outf + 1, Len(outf)) = f.outf
            /\ Len(loop_stack) >= Len(f.loop_stack)
            /\ SubSeq(loop_stack, 1, Len(f.loop_stack)) = f.loop_stack

\* NestedProg was reset inside its outer loop and has then run to the end of
\* the program: the entry of the abandoned loop is still in the stack.
C24_Witness ==
    /\ raw = NestedProg
    /\ action # <<>>
    /\ action[1] # "r"
    /\ phase = "poll"
    /\ pointer = Len(program)
    /\ loop_stack = <<2>>
    /\ rband = <<0, 0>>

=============================================================================
